---- MODULE Spec2Model ----
(***************************************************************************)
(* Model of model/extras/transformer.py: the knowledge-graph conditioned   *)
(* encoder-decoder transformer (Transformer, TransformerEncoder,           *)
(* TransformerDecoder, TransformerEncoderLayer, TransformerDecoderLayer,   *)
(* _get_clones, _get_activation_fn).                                       *)
(*                                                                         *)
(* Tensors are symbolic: a tensor is a record [shape, val] where shape is  *)
(* the sequence of its dimensions and val is the postfix (reverse Polish)  *)
(* term of the expression that produced it, a sequence of strings.  The    *)
(* application of a whole layer to its input stream is the one token that  *)
(* names the layer's position in its stack.  A Python exception is the     *)
(* field raised of a result (None when the call returned).  The body of a  *)
(* forward method is a composition of steps over a record s: s.x is the    *)
(* stream (src or tgt in the code), s.t the value of the running sub-block *)
(* (src2 or tgt2), s.calls the attention calls made so far.                *)
(***************************************************************************)
EXTENDS Integers, Sequences, FiniteSets, TLC

VARIABLES args, hp, pc, model, encoder, decoder, heap, steps, out

vars == <<args, hp, pc, model, encoder, decoder, heap, steps, out>>

(* ------------------------------ bounds --------------------------------- *)
MaxLayers == 2
MaxSeqLen == 2
MaxSteps == 1

None == "None"

ActivationNames == {"relu", "gelu", "glu", "tanh"}
Recognized == {"relu", "gelu", "glu"}

(* (d_model, nhead) pairs: two divisible, one not *)
Widths == {<<4, 2>>, <<6, 2>>, <<6, 4>>}
FeedForwardWidths == {3, 4}

LayerNames == <<"layer1", "layer2", "layer3", "layer4", "layer5", "layer6">>

(* ------------------------------ tensors -------------------------------- *)
NoTensor == [shape |-> <<>>, val |-> <<None>>]

Tensor(sh, v) == [shape |-> sh, val |-> v]

LastDim(t) == IF t.shape = <<>> THEN 0 ELSE t.shape[Len(t.shape)]

SetLastDim(sh, w) == [sh EXCEPT ![Len(sh)] = w]

(* a unary module or function applied to t, keeping the shape *)
Apply(t, f) == Tensor(t.shape, Append(t.val, f))

(* elementwise a + b (b broadcast to a) *)
Add(a, b) == Tensor(a.shape, a.val \o b.val \o <<"+">>)

Raised(e) == [raised |-> e, t |-> NoTensor]

Returned(t) == [raised |-> None, t |-> t]

(* ------------------------- _get_activation_fn -------------------------- *)
Mut_get_activation_fn(activation) ==
    IF activation = "relu" THEN [raised |-> None, fn |-> "relu"]
    ELSE IF activation = "gelu" THEN [raised |-> None, fn |-> "gelu"]
    ELSE IF activation = "glu" THEN [raised |-> None, fn |-> "glu"]
    ELSE [raised |-> None, fn |-> None]

_get_activation_fn(activation) ==
    IF activation = "relu" THEN [raised |-> None, fn |-> "relu"]
    ELSE IF activation = "gelu" THEN [raised |-> None, fn |-> "gelu"]
    ELSE IF activation = "glu" THEN [raised |-> None, fn |-> "glu"]
    ELSE [raised |-> "RuntimeError", fn |-> None]

(* F.relu / F.gelu keep the width; F.glu halves the last dimension and     *)
(* rejects an odd one; calling None is a TypeError                          *)
Activation(fn, t) ==
    IF fn \in {"relu", "gelu"} THEN Returned(Apply(t, fn))
    ELSE IF fn = "glu"
         THEN IF LastDim(t) % 2 = 0
              THEN Returned(Tensor(SetLastDim(t.shape, LastDim(t) \div 2),
                                   Append(t.val, "glu")))
              ELSE Raised("RuntimeError")
         ELSE Raised("TypeError")

(* nn.Linear(in_features, out_features) applied to t *)
Linear(name, in_features, out_features, t) ==
    IF LastDim(t) = in_features
    THEN Returned(Tensor(SetLastDim(t.shape, out_features), Append(t.val, name)))
    ELSE Raised("RuntimeError")

(* nn.LayerNorm(d_model) applied to t *)
LayerNorm(name, d_model, t) ==
    IF LastDim(t) = d_model THEN Returned(Apply(t, name))
    ELSE Raised("RuntimeError")

(* with_pos_embed: tensor if pos is None else tensor + pos *)
with_pos_embed(tensor, pos) ==
    IF pos = NoTensor THEN tensor ELSE Add(tensor, pos)

(* --------------------------- attention modules ------------------------- *)
NoModule == [cls |-> None, embed_dim |-> 0, num_heads |-> 0, w |-> 0,
             knowledge_model |-> 0]

(* a constructor that floors the head width silently *)
Mutnn_MultiheadAttention_init(d_model, nhead, w) ==
    [raised |-> None,
     m |-> [cls |-> "nn.MultiheadAttention", embed_dim |-> d_model,
            num_heads |-> nhead, w |-> w, knowledge_model |-> 0]]

(* torch nn.MultiheadAttention(d_model, nhead): asserts head_dim * num_heads *)
(* == embed_dim                                                             *)
nn_MultiheadAttention_init(d_model, nhead, w) ==
    IF (d_model \div nhead) * nhead = d_model
    THEN [raised |-> None,
          m |-> [cls |-> "nn.MultiheadAttention", embed_dim |-> d_model,
                 num_heads |-> nhead, w |-> w, knowledge_model |-> 0]]
    ELSE [raised |-> "AssertionError", m |-> NoModule]

(* model.extras.mha.MultiheadAttention(args, d_model, nhead, knowledge_model): *)
(* keeps the knowledge model it is given; d_model not divisible by nhead is *)
(* a fatal construction-time error                                          *)
MultiheadAttention_init(d_model, nhead, w, knowledge_model) ==
    IF (d_model \div nhead) * nhead = d_model
    THEN [raised |-> None,
          m |-> [cls |-> "MultiheadAttention", embed_dim |-> d_model,
                 num_heads |-> nhead, w |-> w,
                 knowledge_model |-> knowledge_model]]
    ELSE [raised |-> "AssertionError", m |-> NoModule]

SelfKw == {"attn_mask", "key_padding_mask"}
GraphKw == {"graph_output", "attn_mask", "key_padding_mask"}

(* the keywords of the call guarded by "if self.args.kg_attn == True" *)
KwFor(layer) == IF layer.kg_attn = TRUE THEN GraphKw ELSE SelfKw

(* the record of one call self.<attr>(query, key, value=..., **kwargs) *)
Call(attr, m, query, key, value, kwargs, graph_output, attn_mask, key_padding_mask) ==
    [attr |-> attr, cls |-> m.cls, query |-> query, key |-> key, value |-> value,
     kwargs |-> kwargs,
     graph_output |-> IF "graph_output" \in kwargs THEN graph_output ELSE NoTensor,
     attn_mask |-> attn_mask, key_padding_mask |-> key_padding_mask]

OperandsFit(m, c) ==
    /\ LastDim(c.query) = m.embed_dim
    /\ LastDim(c.key) = m.embed_dim
    /\ c.key.shape = c.value.shape

(* torch nn.MultiheadAttention.forward(query, key, value, key_padding_mask, *)
(* need_weights, attn_mask): an unknown keyword is a TypeError              *)
nn_MultiheadAttention_forward(m, c) ==
    IF ~(c.kwargs \subseteq {"attn_mask", "key_padding_mask"})
    THEN Raised("TypeError")
    ELSE IF ~OperandsFit(m, c) THEN Raised("RuntimeError")
    ELSE Returned(Tensor(c.query.shape,
                         c.query.val \o c.key.val \o c.value.val \o <<c.attr>>))

(* the knowledge-aware attention: accepts graph_output, returns [Lq, B, D] *)
MultiheadAttention_forward(m, c) ==
    IF ~(c.kwargs \subseteq {"graph_output", "attn_mask", "key_padding_mask"})
    THEN Raised("TypeError")
    ELSE IF ~OperandsFit(m, c) THEN Raised("RuntimeError")
    ELSE Returned(Tensor(c.query.shape,
                         c.query.val \o c.key.val \o c.value.val
                         \o c.graph_output.val \o <<c.attr>>))

Attend(m, c) ==
    IF m.cls = "nn.MultiheadAttention" THEN nn_MultiheadAttention_forward(m, c)
    ELSE MultiheadAttention_forward(m, c)

(* ------------------------------- layers -------------------------------- *)
NoLayer == [kind |-> None, kg_attn |-> FALSE, d_model |-> 0,
            linear1 |-> <<0, 0>>, linear2 |-> <<0, 0>>, activation |-> None,
            normalize_before |-> FALSE, w |-> 0,
            self_attn |-> NoModule, multihead_attn |-> NoModule]

(* the layer object once the activation lookup act and the attention       *)
(* constructors sa, ca have run                                             *)
LayerOf(kind, a, d_model, dim_feedforward, normalize_before, w, act, sa, ca) ==
    IF act.raised # None THEN [raised |-> act.raised, layer |-> NoLayer]
    ELSE IF sa.raised # None THEN [raised |-> sa.raised, layer |-> NoLayer]
    ELSE IF ca.raised # None THEN [raised |-> ca.raised, layer |-> NoLayer]
    ELSE [raised |-> None,
          layer |-> [kind |-> kind, kg_attn |-> a.kg_attn, d_model |-> d_model,
                     linear1 |-> <<d_model, dim_feedforward>>,
                     linear2 |-> <<dim_feedforward, d_model>>,
                     activation |-> act.fn,
                     normalize_before |-> normalize_before, w |-> w,
                     self_attn |-> sa.m, multihead_attn |-> ca.m]]

(* self.self_attn / self.multihead_attn = ... under "if args.kg_attn == True" *)
AttentionFor(a, d_model, nhead, w, knowledge_model) ==
    IF a.kg_attn = TRUE
    THEN MultiheadAttention_init(d_model, nhead, w, knowledge_model)
    ELSE nn_MultiheadAttention_init(d_model, nhead, w)

(* TransformerEncoderLayer(args, d_model, nhead, dim_feedforward, dropout,  *)
(* activation, normalize_before, knowledge_model); ids names the parameter  *)
(* objects the constructor allocates                                        *)
TransformerEncoderLayer_init(a, d_model, nhead, dim_feedforward, activation, normalize_before, knowledge_model, ids) ==
    LayerOf("enc", a, d_model, dim_feedforward, normalize_before, ids[1],
            _get_activation_fn(activation),
            AttentionFor(a, d_model, nhead, ids[2], knowledge_model),
            [raised |-> None, m |-> NoModule])

(* TransformerDecoderLayer(...): both attention modules get the same        *)
(* knowledge_model object                                                    *)
TransformerDecoderLayer_init(a, d_model, nhead, dim_feedforward, activation, normalize_before, knowledge_model, ids) ==
    LayerOf("dec", a, d_model, dim_feedforward, normalize_before, ids[1],
            _get_activation_fn(activation),
            AttentionFor(a, d_model, nhead, ids[2], knowledge_model),
            AttentionFor(a, d_model, nhead, ids[3], knowledge_model))

(* ------------------------ the steps of a forward ----------------------- *)
NoFF == [reached |-> FALSE, act_in |-> 0, act_out |-> 0, expect |-> 0]

Start(x) == [raised |-> None, x |-> x, t |-> x, calls |-> <<>>, ff |-> NoFF]

Fail(s, e) == [s EXCEPT !.raised = e, !.t = NoTensor]

(* s after the sub-block produced r *)
Into(r, s) == [s EXCEPT !.raised = r.raised, !.t = r.t]

(* s after the stream was replaced by r *)
IntoStream(r, s) == [s EXCEPT !.raised = r.raised, !.t = r.t, !.x = r.t]

(* s after the attention call c returned or raised r *)
Called(r, c, s) ==
    [s EXCEPT !.raised = r.raised, !.t = r.t, !.calls = Append(@, c)]

(* src2 = self.normN(src) *)
NormSub(name, d_model, s) ==
    IF s.raised # None THEN s ELSE Into(LayerNorm(name, d_model, s.x), s)

(* src = self.normN(src) *)
NormStream(name, d_model, s) ==
    IF s.raised # None THEN s ELSE IntoStream(LayerNorm(name, d_model, s.x), s)

(* src = src + self.dropoutN(src2) *)
AddDrop(drop, s) ==
    IF s.raised # None THEN s
    ELSE IF s.x.shape # s.t.shape THEN Fail(s, "RuntimeError")
    ELSE IntoStream(Returned(Add(s.x, Apply(s.t, drop))), s)

(* q = k = v = self.with_pos_embed(., pos); self.self_attn(q, k, value=v, ...) *)
SelfAttend(layer, kwargs, graph_output, attn_mask, key_padding_mask, pos, s) ==
    IF s.raised # None THEN s
    ELSE Called(Attend(layer.self_attn,
                    Call("self_attn", layer.self_attn,
                         with_pos_embed(s.t, pos), with_pos_embed(s.t, pos),
                         with_pos_embed(s.t, pos), kwargs, graph_output,
                         attn_mask, key_padding_mask)),
                Call("self_attn", layer.self_attn,
                     with_pos_embed(s.t, pos), with_pos_embed(s.t, pos),
                     with_pos_embed(s.t, pos), kwargs, graph_output,
                     attn_mask, key_padding_mask),
                s)

(* self.multihead_attn(query=self.with_pos_embed(., query_pos), key=...,    *)
(* value=..., ...)                                                          *)
CrossAttend(layer, kwargs, graph_output, attn_mask, key_padding_mask, query_pos, key, value, s) ==
    IF s.raised # None THEN s
    ELSE Called(Attend(layer.multihead_attn,
                    Call("multihead_attn", layer.multihead_attn,
                         with_pos_embed(s.t, query_pos), key, value, kwargs,
                         graph_output, attn_mask, key_padding_mask)),
                Call("multihead_attn", layer.multihead_attn,
                     with_pos_embed(s.t, query_pos), key, value, kwargs,
                     graph_output, attn_mask, key_padding_mask),
                s)

(* self.linear1(.) *)
FFLinear1(layer, s) ==
    IF s.raised # None THEN s
    ELSE [Into(Linear("linear1", layer.linear1[1], layer.linear1[2], s.t), s)
            EXCEPT !.ff = IF LastDim(s.t) = layer.linear1[1]
                          THEN [reached |-> TRUE, act_in |-> layer.linear1[2],
                                act_out |-> 0, expect |-> layer.linear2[1]]
                          ELSE NoFF]

(* self.activation(.) *)
FFActivation(layer, s) ==
    IF s.raised # None THEN s
    ELSE [Into(Activation(layer.activation, s.t), s)
            EXCEPT !.ff.act_out = LastDim(Activation(layer.activation, s.t).t)]

(* self.linear2(self.dropout(.)) *)
FFLinear2(layer, s) ==
    IF s.raised # None THEN s
    ELSE Into(Linear("linear2", layer.linear2[1], layer.linear2[2],
                     Apply(s.t, "dropout")), s)

(* src2 = self.linear2(self.dropout(self.activation(self.linear1(.)))) *)
FeedForward(layer, s) == FFLinear2(layer, FFActivation(layer, FFLinear1(layer, s)))

(* return src: the layer applied to its input stream *)
Result(tag, input, s) ==
    [raised |-> s.raised,
     t |-> IF s.raised = None THEN Tensor(s.x.shape, Append(input.val, tag))
           ELSE NoTensor,
     calls |-> s.calls, ff |-> s.ff]

(* --------------------- TransformerEncoderLayer.forward ----------------- *)
EncoderLayer_forward_post(layer, tag, src, graph_output, src_mask, src_key_padding_mask, pos) ==
    Result(tag, src,
      NormStream("norm2", layer.d_model,
        AddDrop("dropout2",
          FeedForward(layer,
            NormStream("norm1", layer.d_model,
              AddDrop("dropout1",
                SelfAttend(layer, KwFor(layer), graph_output, src_mask,
                           src_key_padding_mask, pos, Start(src))))))))

EncoderLayer_forward_pre(layer, tag, src, graph_output, src_mask, src_key_padding_mask, pos) ==
    Result(tag, src,
      AddDrop("dropout2",
        FeedForward(layer,
          NormSub("norm2", layer.d_model,
            AddDrop("dropout1",
              SelfAttend(layer, GraphKw, graph_output, src_mask,
                         src_key_padding_mask, pos,
                         NormSub("norm1", layer.d_model, Start(src))))))))

TransformerEncoderLayer_forward(layer, tag, src, graph_output, src_mask, src_key_padding_mask, pos) ==
    IF layer.normalize_before
    THEN EncoderLayer_forward_pre(layer, tag, src, graph_output, src_mask,
                                  src_key_padding_mask, pos)
    ELSE EncoderLayer_forward_post(layer, tag, src, graph_output, src_mask,
                                   src_key_padding_mask, pos)

(* --------------------- TransformerDecoderLayer.forward ----------------- *)
DecoderLayer_forward_post(layer, tag, tgt, memory, graph_output, tgt_mask, memory_mask, tgt_key_padding_mask, memory_key_padding_mask, pos, query_pos, tgt_pos) ==
    Result(tag, tgt,
      NormStream("norm3", layer.d_model,
        AddDrop("dropout3",
          FeedForward(layer,
            NormStream("norm2", layer.d_model,
              AddDrop("dropout2",
                CrossAttend(layer, KwFor(layer), graph_output, memory_mask,
                            memory_key_padding_mask, query_pos,
                            with_pos_embed(memory, pos),
                            with_pos_embed(memory, pos),
                  NormStream("norm1", layer.d_model,
                    AddDrop("dropout1",
                      SelfAttend(layer, KwFor(layer), graph_output, tgt_mask,
                                 tgt_key_padding_mask, query_pos,
                                 Start(tgt)))))))))))

DecoderLayer_forward_pre(layer, tag, tgt, memory, graph_output, tgt_mask, memory_mask, tgt_key_padding_mask, memory_key_padding_mask, pos, query_pos, tgt_pos) ==
    Result(tag, tgt,
      AddDrop("dropout3",
        FeedForward(layer,
          NormSub("norm3", layer.d_model,
            AddDrop("dropout2",
              CrossAttend(layer, KwFor(layer), graph_output, memory_mask,
                          memory_key_padding_mask, query_pos,
                          with_pos_embed(memory, pos),
                          memory,
                NormSub("norm2", layer.d_model,
                  AddDrop("dropout1",
                    SelfAttend(layer, KwFor(layer), graph_output, tgt_mask,
                               tgt_key_padding_mask, query_pos,
                               NormSub("norm1", layer.d_model,
                                       Start(tgt)))))))))))

(* forward hands pos and query_pos on by position; tgt_pos is dropped *)
TransformerDecoderLayer_forward(layer, tag, tgt, memory, graph_output, tgt_mask, memory_mask, tgt_key_padding_mask, memory_key_padding_mask, pos, tgt_pos, query_pos) ==
    IF layer.normalize_before
    THEN DecoderLayer_forward_pre(layer, tag, tgt, memory, graph_output, tgt_mask,
                                  memory_mask, tgt_key_padding_mask,
                                  memory_key_padding_mask, pos, query_pos, NoTensor)
    ELSE DecoderLayer_forward_post(layer, tag, tgt, memory, graph_output, tgt_mask,
                                   memory_mask, tgt_key_padding_mask,
                                   memory_key_padding_mask, pos, query_pos, NoTensor)

(* ------------------------------ _get_clones ---------------------------- *)
Max(S) == IF S = {} THEN 0 ELSE CHOOSE x \in S : \A y \in S : y <= x

(* the parameter objects reachable from a layer *)
LayerIds(layer) ==
    {layer.w, layer.self_attn.w, layer.self_attn.knowledge_model,
     layer.multihead_attn.w, layer.multihead_attn.knowledge_model} \ {0}

(* copy.deepcopy(module): every object reachable from module gets one fresh *)
(* copy, so sharing inside the module is kept and nothing is shared with it *)
DeepCopy(layer, off) ==
    [layer EXCEPT !.w = IF @ = 0 THEN 0 ELSE off + @,
                  !.self_attn.w = IF @ = 0 THEN 0 ELSE off + @,
                  !.self_attn.knowledge_model = IF @ = 0 THEN 0 ELSE off + @,
                  !.multihead_attn.w = IF @ = 0 THEN 0 ELSE off + @,
                  !.multihead_attn.knowledge_model = IF @ = 0 THEN 0 ELSE off + @]

(* a list that holds the one module N times *)
Mut_get_clones(module, N, fresh) == [i \in 1..N |-> module]

(* [copy.deepcopy(module) for i in range(N)]; fresh is the last object id   *)
(* in use before the call                                                   *)
_get_clones(module, N, fresh) ==
    [i \in 1..N |-> DeepCopy(module, fresh + (i - 1) * Max(LayerIds(module)))]

FreshAfter(module, N, fresh) == fresh + N * Max(LayerIds(module))

(* ------------------------------- stacks -------------------------------- *)
NoNorm == [w |-> 0, d_model |-> 0]

NoStack == [layers |-> <<>>, num_layers |-> 0, norm |-> NoNorm]

(* TransformerEncoder(args, encoder_layer, num_layers, norm) *)
TransformerEncoder_init(encoder_layer, num_layers, norm, fresh) ==
    [layers |-> _get_clones(encoder_layer, num_layers, fresh),
     num_layers |-> num_layers, norm |-> norm]

(* TransformerDecoder(args, decoder_layer, num_layers, norm, return_intermediate) *)
TransformerDecoder_init(decoder_layer, num_layers, norm, return_intermediate, fresh) ==
    [layers |-> _get_clones(decoder_layer, num_layers, fresh),
     num_layers |-> num_layers, norm |-> norm,
     return_intermediate |-> return_intermediate]

(* self.norm(output); self.norm may be None, and calling None is a TypeError *)
StackNorm(norm, t) ==
    IF norm = NoNorm THEN Raised("TypeError")
    ELSE LayerNorm("norm", norm.d_model, t)

RECURSIVE Flatten(_)
Flatten(ts) == IF ts = <<>> THEN <<>> ELSE Head(ts).val \o Flatten(Tail(ts))

SameShapes(ts) == \A i \in 1..Len(ts) : ts[i].shape = ts[1].shape

(* concatenation along the first dimension instead of a new one *)
MutStack(ts) ==
    IF ts = <<>> \/ ~SameShapes(ts) THEN Raised("RuntimeError")
    ELSE Returned(Tensor([ts[1].shape EXCEPT ![1] = @ * Len(ts)],
                         Append(Flatten(ts), "stack")))

(* torch.stack(intermediate): a new leading dimension of size len(intermediate) *)
Stack(ts) ==
    IF ts = <<>> \/ ~SameShapes(ts) THEN Raised("RuntimeError")
    ELSE Returned(Tensor(<<Len(ts)>> \o ts[1].shape, Append(Flatten(ts), "stack")))

(* the locals of a stack's forward: output (t) and intermediate *)
Begin(x) == [raised |-> None, t |-> x, intermediate |-> <<>>]

(* output = layer(output, ...) *)
AfterLayer(st, r) == [st EXCEPT !.raised = r.raised, !.t = r.t]

(* ----------------------- TransformerEncoder.forward -------------------- *)
RECURSIVE EncoderLoop(_, _, _, _)
EncoderLoop(enc, i, c, st) ==
    IF i > Len(enc.layers) \/ st.raised # None THEN st
    ELSE EncoderLoop(enc, i + 1, c,
           AfterLayer(st,
             TransformerEncoderLayer_forward(enc.layers[i], LayerNames[i], st.t,
                 c.graph_output, c.mask, c.src_key_padding_mask, c.pos)))

(* if self.norm is not None: output = self.norm(output) *)
EncoderFinish(enc, st) ==
    IF st.raised # None \/ enc.norm = NoNorm THEN st
    ELSE AfterLayer(st, StackNorm(enc.norm, st.t))

EncoderCtx(graph_output, mask, src_key_padding_mask, pos) ==
    [graph_output |-> graph_output, mask |-> mask,
     src_key_padding_mask |-> src_key_padding_mask, pos |-> pos]

TransformerEncoder_forward(enc, src, c) ==
    EncoderFinish(enc, EncoderLoop(enc, 1, c, Begin(src)))

(* ----------------------- TransformerDecoder.forward -------------------- *)
(* intermediate.append(n) where n = self.norm(output) *)
Captured(st, n) ==
    IF n.raised # None THEN [st EXCEPT !.raised = n.raised, !.t = NoTensor]
    ELSE [st EXCEPT !.intermediate = Append(@, n.t)]

(* if self.return_intermediate: intermediate.append(self.norm(output)) *)
Capture(dec, st) ==
    IF st.raised # None \/ ~dec.return_intermediate THEN st
    ELSE Captured(st, StackNorm(dec.norm, st.t))

RECURSIVE DecoderLoop(_, _, _, _)
DecoderLoop(dec, i, c, st) ==
    IF i > Len(dec.layers) \/ st.raised # None THEN st
    ELSE DecoderLoop(dec, i + 1, c,
           Capture(dec,
             AfterLayer(st,
               TransformerDecoderLayer_forward(dec.layers[i], LayerNames[i], st.t,
                   c.memory, c.graph_output, c.tgt_mask, c.memory_mask,
                   c.tgt_key_padding_mask, c.memory_key_padding_mask,
                   c.pos, c.tgt_pos, c.query_pos))))

(* output = n without replacing the last capture *)
MutReplaced(dec, st, n) ==
    IF n.raised # None THEN [st EXCEPT !.raised = n.raised, !.t = NoTensor]
    ELSE IF ~dec.return_intermediate THEN [st EXCEPT !.t = n.t]
    ELSE [st EXCEPT !.t = n.t, !.intermediate = Append(@, n.t)]

(* output = n; if self.return_intermediate: intermediate.pop();             *)
(* intermediate.append(output)                                              *)
Replaced(dec, st, n) ==
    IF n.raised # None THEN [st EXCEPT !.raised = n.raised, !.t = NoTensor]
    ELSE IF ~dec.return_intermediate THEN [st EXCEPT !.t = n.t]
    ELSE IF st.intermediate = <<>>
         THEN [st EXCEPT !.raised = "IndexError", !.t = NoTensor]
         ELSE [st EXCEPT !.t = n.t,
                         !.intermediate =
                             Append(SubSeq(@, 1, Len(@) - 1), n.t)]

(* if self.norm is not None: ... *)
FinalNorm(dec, st) ==
    IF st.raised # None \/ dec.norm = NoNorm THEN st
    ELSE Replaced(dec, st, StackNorm(dec.norm, st.t))

(* if self.return_intermediate: return torch.stack(intermediate); return output *)
ReturnStack(dec, st) ==
    IF st.raised # None \/ ~dec.return_intermediate THEN st
    ELSE AfterLayer(st, Stack(st.intermediate))

DecoderCtx(memory, graph_output, tgt_mask, memory_mask, tgt_key_padding_mask, memory_key_padding_mask, pos, tgt_pos, query_pos) ==
    [memory |-> memory, graph_output |-> graph_output, tgt_mask |-> tgt_mask,
     memory_mask |-> memory_mask, tgt_key_padding_mask |-> tgt_key_padding_mask,
     memory_key_padding_mask |-> memory_key_padding_mask,
     pos |-> pos, tgt_pos |-> tgt_pos, query_pos |-> query_pos]

TransformerDecoder_forward(dec, tgt, c) ==
    ReturnStack(dec, FinalNorm(dec, DecoderLoop(dec, 1, c, Begin(tgt))))

(* ------------------------- Transformer.__init__ ------------------------ *)
NoModel == [d_head |-> 0, d_model |-> 0, nhead |-> 0, attrs |-> {},
            knowledge_weighting_encoder_model |-> 0,
            knowledge_weighting_decoder_model |-> 0]

NotBuilt(e) == [raised |-> e, model |-> NoModel, encoder |-> NoStack,
                decoder |-> NoStack]

(* a graph-attention branch that builds the video encoder only when         *)
(* condition_propagation is set                                             *)
MutCollaborators(a) ==
    IF a.kg_attn = TRUE
    THEN {"graph"} \cup
         (IF a.use_gsnn
          THEN {"gsnn_net"} \cup
               (IF a.condition_propagation THEN {"video_encoder"} ELSE {})
          ELSE {"gat"} \cup
               (IF a.condition_propagation THEN {"video_encoder"} ELSE {}))
    ELSE {}

(* the collaborator attributes __init__ sets on self *)
Collaborators(a) ==
    IF a.kg_attn = TRUE
    THEN {"graph"} \cup
         (IF a.use_gsnn
          THEN {"gsnn_net"} \cup
               (IF a.condition_propagation THEN {"video_encoder"} ELSE {})
          ELSE {"gat", "video_encoder"})
    ELSE {}

(* KnowledgeWeightingModel(args) for the encoder (object 1) and the decoder *)
(* (object 2); None (0) when kg_attn is off                                 *)
KnowledgeModels(a) == IF a.kg_attn = TRUE THEN <<1, 2>> ELSE <<0, 0>>

(* encoder_norm = nn.LayerNorm(d_model) if normalize_before else None *)
EncoderNorm(h) ==
    IF h.normalize_before THEN [w |-> 8, d_model |-> h.d_model] ELSE NoNorm

(* decoder_norm = nn.LayerNorm(d_model) *)
DecoderNorm(h) == [w |-> 9, d_model |-> h.d_model]

(* the rest of __init__ once both stacks exist: pickle.load(open(path))     *)
(* raises when the graph file is missing                                    *)
Wired(a, h, graph_file, enc, dec) ==
    IF a.kg_attn = TRUE /\ ~graph_file THEN NotBuilt("FileNotFoundError")
    ELSE [raised |-> None,
          model |-> [d_head |-> h.d_model \div h.nhead,
                     d_model |-> h.d_model, nhead |-> h.nhead,
                     attrs |-> Collaborators(a),
                     knowledge_weighting_encoder_model |-> KnowledgeModels(a)[1],
                     knowledge_weighting_decoder_model |-> KnowledgeModels(a)[2]],
          encoder |-> enc, decoder |-> dec]

(* __init__ once the two template layers el, dl were constructed *)
Templates(a, h, graph_file, el, dl) ==
    IF el.raised # None THEN NotBuilt(el.raised)
    ELSE IF dl.raised # None THEN NotBuilt(dl.raised)
    ELSE Wired(a, h, graph_file,
               TransformerEncoder_init(el.layer, h.num_encoder_layers,
                                       EncoderNorm(h), 9),
               TransformerDecoder_init(dl.layer, h.num_decoder_layers,
                                       DecoderNorm(h), h.return_intermediate_dec,
                                       FreshAfter(el.layer, h.num_encoder_layers, 9)))

Transformer_init(a, h, graph_file) ==
    Templates(a, h, graph_file,
        TransformerEncoderLayer_init(a, h.d_model, h.nhead, h.dim_feedforward,
            h.activation, h.normalize_before, KnowledgeModels(a)[1], <<3, 4>>),
        TransformerDecoderLayer_init(a, h.d_model, h.nhead, h.dim_feedforward,
            h.activation, h.normalize_before, KnowledgeModels(a)[2], <<5, 6, 7>>))

RECURSIVE StackIds(_)
StackIds(layers) ==
    IF layers = <<>> THEN {}
    ELSE LayerIds(Head(layers)) \cup StackIds(Tail(layers))

(* self.parameters(): the parameter objects registered on the model *)
Parameters(m, enc, dec) ==
    (StackIds(enc.layers) \cup StackIds(dec.layers)
       \cup {enc.norm.w, dec.norm.w}
       \cup {m.knowledge_weighting_encoder_model,
             m.knowledge_weighting_decoder_model}) \ {0}

(* -------------------------- Transformer.forward ------------------------ *)
(* the video encoder: encode(source_sequence_batch_first) *)
VideoEncode(a, src) ==
    Tensor(<<src.shape[2], a.condition_propagation_dim>>,
           src.val \o <<"transpose", "video_encoder">>)

(* (importance_loss, context_vectors) = get_context_vectors(...) *)
get_context_vectors(a, detections, target_nodes, conditioning_input, mode) ==
    [importance_loss |-> Tensor(<<>>, <<"importance_loss", mode>>),
     graph_output |-> Tensor(<<a.state_dim, 1, a.state_dim>>,
                        detections.val \o target_nodes.val
                        \o conditioning_input.val \o <<"gsnn", mode>>)]

(* node_representations = get_node_representations(...) *)
get_node_representations(a, conditioning_input) ==
    Tensor(<<a.state_dim, 1, a.state_dim>>, conditioning_input.val \o <<"gat">>)

(* the locals of forward: graph_output, importance_loss = None, None *)
NoCond == [raised |-> None, log |-> <<>>, accessed |-> {},
           conditioning_input |-> NoTensor, graph_output |-> NoTensor,
           importance_loss |-> NoTensor,
           enc_called |-> FALSE, enc_graph_output |-> NoTensor,
           memory |-> NoTensor,
           dec_called |-> FALSE, dec_graph_output |-> NoTensor,
           hs |-> NoTensor, intermediate |-> <<>>]

(* reading self.<attr> for every attr of uses *)
Access(m, f, uses) ==
    IF f.raised # None THEN f
    ELSE IF uses \subseteq m.attrs THEN [f EXCEPT !.accessed = @ \cup uses]
    ELSE [f EXCEPT !.accessed = @ \cup uses, !.raised = "AttributeError"]

(* conditioning_input = self.video_encoder(src.transpose(0, 1)) *)
Encoded(a, src, f) ==
    IF f.raised # None THEN f
    ELSE [f EXCEPT !.conditioning_input = VideoEncode(a, src),
                   !.log = Append(@, [fn |-> "video_encoder",
                                      conditioning_input |-> NoTensor])]

UseVideoEncoder(m, a, src, f) ==
    IF f.raised # None THEN f
    ELSE Encoded(a, src, Access(m, f, {"video_encoder"}))

(* a caller that drops the provider's loss *)
MutGotContext(f, r) ==
    [f EXCEPT !.graph_output = r.graph_output,
              !.log = Append(@, [fn |-> "get_context_vectors",
                                 conditioning_input |-> f.conditioning_input])]

(* importance_loss, context_vectors = ...; graph_output = context_vectors *)
GotContext(f, r) ==
    [f EXCEPT !.importance_loss = r.importance_loss,
              !.graph_output = r.graph_output,
              !.log = Append(@, [fn |-> "get_context_vectors",
                                 conditioning_input |-> f.conditioning_input])]

ContextVectors(a, detections, target_nodes, mode, f) ==
    IF f.raised # None THEN f
    ELSE GotContext(f, get_context_vectors(a, detections, target_nodes,
                                           f.conditioning_input, mode))

(* graph_output = node_representations *)
NodeRepresentations(a, f) ==
    IF f.raised # None THEN f
    ELSE [f EXCEPT !.graph_output =
                       get_node_representations(a, f.conditioning_input),
                   !.log = Append(@, [fn |-> "get_node_representations",
                                      conditioning_input |->
                                          f.conditioning_input])]

(* if self.args.use_gsnn: ... else: ... *)
Strategy(m, a, src, detections, target_nodes, mode, f) ==
    IF f.raised # None THEN f
    ELSE IF a.use_gsnn
         THEN ContextVectors(a, detections, target_nodes, mode,
                             Access(m, f, {"gsnn_net", "graph"}))
         ELSE NodeRepresentations(a,
                  Access(m, UseVideoEncoder(m, a, src, f), {"graph", "gat"}))

(* if self.args.condition_propagation: conditioning_input = ... *)
Condition(m, a, src, f) ==
    IF a.condition_propagation THEN UseVideoEncoder(m, a, src, f) ELSE f

(* if self.args.kg_attn == True: ... *)
Conditioning(m, a, src, detections, target_nodes, mode) ==
    IF a.kg_attn = TRUE
    THEN Strategy(m, a, src, detections, target_nodes, mode,
                  Condition(m, a, src, NoCond))
    ELSE NoCond

(* memory = self.encoder(src, c...) returned or raised r *)
EncoderDone(f, c, r) ==
    [f EXCEPT !.raised = r.raised, !.memory = r.t, !.enc_called = TRUE,
              !.enc_graph_output = c.graph_output]

EncoderCall(enc, src, c, f) ==
    EncoderDone(f, c, TransformerEncoder_forward(enc, src, c))

(* memory = self.encoder(src, graph_output, src_key_padding_mask=mask,      *)
(* pos=pos_embed)                                                           *)
Encode(enc, src, mask, pos_embed, f) ==
    IF f.raised # None THEN f
    ELSE EncoderCall(enc, src,
                     EncoderCtx(f.graph_output, None, mask, pos_embed), f)

(* hs = self.decoder(tgt, c...) returned or raised r *)
DecoderDone(f, c, r) ==
    [f EXCEPT !.raised = r.raised, !.hs = r.t, !.dec_called = TRUE,
              !.dec_graph_output = c.graph_output,
              !.intermediate = r.intermediate]

DecoderCall(dec, tgt, c, f) ==
    DecoderDone(f, c, TransformerDecoder_forward(dec, tgt, c))

(* hs = self.decoder(tgt, memory, graph_output, tgt_mask=tgt_mask,          *)
(* memory_key_padding_mask=mask, tgt_key_padding_mask=..., pos=pos_embed,   *)
(* query_pos=query_embed, tgt_pos=tgt_pos_embed)                            *)
Decode(dec, tgt, mask, tgt_mask, tgt_key_padding_mask, query_embed, pos_embed, tgt_pos_embed, f) ==
    IF f.raised # None THEN f
    ELSE DecoderCall(dec, tgt,
                     DecoderCtx(f.memory, f.graph_output, tgt_mask, None,
                                tgt_key_padding_mask, mask, pos_embed,
                                tgt_pos_embed, query_embed), f)

(* return memory, hs, importance_loss *)
Transformer_forward(m, enc, dec, a, src, tgt, mask, tgt_mask, detections, target_nodes, tgt_key_padding_mask, query_embed, pos_embed, tgt_pos_embed, mode) ==
    Decode(dec, tgt, mask, tgt_mask, tgt_key_padding_mask, query_embed,
           pos_embed, tgt_pos_embed,
           Encode(enc, src, mask, pos_embed,
                  Conditioning(m, a, src, detections, target_nodes, mode)))

(* ------------------------------- inputs -------------------------------- *)
SeqLens == 1..MaxSeqLen
Depths == 1..MaxLayers

(* a sequence tensor [sequence_length, batch, d_model] *)
Sequence(name, L, D) == Tensor(<<L, 1, D>>, <<name>>)

(* an optional positional embedding, shaped like the sequence it is added to *)
Optional(present, t) == IF present THEN t ELSE NoTensor

(* detection features and target graph nodes of one batch *)
Detections == Tensor(<<1, 2>>, <<"detections">>)
TargetNodes == Tensor(<<1, 2>>, <<"target_nodes">>)

(* the graph output a caller of a stack or layer holds *)
GraphOutputFor(a) ==
    IF a.kg_attn = TRUE
    THEN Tensor(<<a.state_dim, 1, a.state_dim>>, <<"graph_output">>)
    ELSE NoTensor

Args(K, G, C) ==
    [kg_attn : K, use_gsnn : G, condition_propagation : C,
     condition_propagation_dim : {2}, state_dim : {2}]

Hyper(W, F, A, NB, RI, NE, ND) ==
    {[d_model |-> w[1], nhead |-> w[2], dim_feedforward |-> f, activation |-> act,
      normalize_before |-> nb, return_intermediate_dec |-> ri,
      num_encoder_layers |-> ne, num_decoder_layers |-> nd] :
        w \in W, f \in F, act \in A, nb \in NB, ri \in RI, ne \in NE, nd \in ND}

(* before any constructor has run *)
InitWith(A, H) ==
    /\ args \in A
    /\ hp \in H
    /\ pc = "new"
    /\ model = NoModel
    /\ encoder = NoStack
    /\ decoder = NoStack
    /\ heap = <<>>
    /\ steps = 0
    /\ out = [op |-> None]

Init ==
    InitWith(Args(BOOLEAN, BOOLEAN, BOOLEAN),
             Hyper(Widths, {4}, ActivationNames, BOOLEAN, {FALSE}, Depths, {1}))

InitTrain ==
    InitWith(Args(BOOLEAN, {TRUE}, {FALSE}),
             Hyper(Widths, {4}, {"relu", "tanh"}, BOOLEAN, {FALSE}, Depths, Depths))

InitStacks ==
    InitWith(Args(BOOLEAN, {FALSE}, {FALSE}),
             Hyper({<<4, 2>>}, FeedForwardWidths, ActivationNames, BOOLEAN,
                   {FALSE}, {1}, {1}))

(* ------------------------------- actions ------------------------------- *)
(* model = Transformer(args, d_model, nhead, ...) returned or raised r *)
Constructed(r, graph_file) ==
    /\ pc' = IF r.raised = None THEN "constructed" ELSE "raised"
    /\ model' = r.model
    /\ encoder' = r.encoder
    /\ decoder' = r.decoder
    /\ heap' = [p \in Parameters(r.model, r.encoder, r.decoder) |-> 0]
    /\ out' = [op |-> "init", raised |-> r.raised, graph_file |-> graph_file]
    /\ UNCHANGED <<args, hp, steps>>

Construct ==
    /\ pc = "new"
    /\ \E graph_file \in BOOLEAN :
          Constructed(Transformer_init(args, hp, graph_file), graph_file)

(* model(src, tgt, mask, tgt_mask, detections, target_nodes,                *)
(* tgt_key_padding_mask, query_embed, pos_embed, tgt_pos_embed, mode)       *)
Forward ==
    /\ pc = "constructed"
    /\ \E ls \in SeqLens, lt \in SeqLens, mode \in {"train", "test"} :
          out' = [op |-> "forward",
                  src |-> Sequence("src", ls, hp.d_model),
                  tgt |-> Sequence("tgt", lt, hp.d_model),
                  mode |-> mode,
                  res |-> Transformer_forward(model, encoder, decoder, args,
                            Sequence("src", ls, hp.d_model),
                            Sequence("tgt", lt, hp.d_model),
                            "mask", "tgt_mask",
                            Detections, TargetNodes,
                            "tgt_key_padding_mask",
                            Sequence("query_embed", lt, hp.d_model),
                            Sequence("pos_embed", ls, hp.d_model),
                            Sequence("tgt_pos_embed", lt, hp.d_model),
                            mode)]
    /\ UNCHANGED <<args, hp, pc, model, encoder, decoder, heap, steps>>

(* the training optimizer updates one parameter object of the model *)
OptimizerStep ==
    /\ pc = "constructed"
    /\ steps < MaxSteps
    /\ \E p \in DOMAIN heap :
          /\ heap' = [heap EXCEPT ![p] = @ + 1]
          /\ out' = [op |-> "step", updated |-> p, before |-> heap]
    /\ steps' = steps + 1
    /\ UNCHANGED <<args, hp, pc, model, encoder, decoder>>

(* TransformerEncoder(args, TransformerEncoderLayer(...), N, norm) with the *)
(* template constructor having returned or raised el                        *)
EncoderBuilt(el, N, norm) ==
    /\ pc' = IF el.raised = None THEN "encoder" ELSE "raised"
    /\ encoder' = IF el.raised = None
                  THEN TransformerEncoder_init(el.layer, N, norm, 9)
                  ELSE NoStack
    /\ out' = [op |-> "new_encoder", raised |-> el.raised]
    /\ UNCHANGED <<args, hp, model, decoder, heap, steps>>

NewEncoder ==
    /\ pc = "new"
    /\ \E N \in Depths, norm \in BOOLEAN :
          EncoderBuilt(
              TransformerEncoderLayer_init(args, hp.d_model, hp.nhead,
                  hp.dim_feedforward, hp.activation, hp.normalize_before,
                  KnowledgeModels(args)[1], <<3, 4>>),
              N, IF norm THEN DecoderNorm(hp) ELSE NoNorm)

(* TransformerDecoder(args, TransformerDecoderLayer(...), N, norm,          *)
(* return_intermediate)                                                     *)
DecoderBuilt(dl, N, norm, return_intermediate) ==
    /\ pc' = IF dl.raised = None THEN "decoder" ELSE "raised"
    /\ decoder' = IF dl.raised = None
                  THEN TransformerDecoder_init(dl.layer, N, norm,
                                               return_intermediate, 9)
                  ELSE NoStack
    /\ out' = [op |-> "new_decoder", raised |-> dl.raised]
    /\ UNCHANGED <<args, hp, model, encoder, heap, steps>>

NewDecoder ==
    /\ pc = "new"
    /\ \E N \in Depths, norm \in BOOLEAN, return_intermediate \in BOOLEAN :
          DecoderBuilt(
              TransformerDecoderLayer_init(args, hp.d_model, hp.nhead,
                  hp.dim_feedforward, hp.activation, hp.normalize_before,
                  KnowledgeModels(args)[2], <<5, 6, 7>>),
              N, IF norm THEN DecoderNorm(hp) ELSE NoNorm, return_intermediate)

(* encoder(src, graph_output, src_key_padding_mask=mask, pos=pos) *)
EncoderForward ==
    /\ pc = "encoder"
    /\ \E ls \in SeqLens, pos \in BOOLEAN :
          out' = [op |-> "encoder",
                  src |-> Sequence("src", ls, hp.d_model),
                  res |-> TransformerEncoder_forward(encoder,
                            Sequence("src", ls, hp.d_model),
                            EncoderCtx(GraphOutputFor(args), None, "mask",
                                Optional(pos, Sequence("pos", ls, hp.d_model))))]
    /\ UNCHANGED <<args, hp, pc, model, encoder, decoder, heap, steps>>

(* the arguments of one decoder call *)
DecoderArgs(lm, lt, pos, query_pos) ==
    DecoderCtx(Sequence("memory", lm, hp.d_model), GraphOutputFor(args),
               "tgt_mask", None, "tgt_key_padding_mask", "mask",
               Optional(pos, Sequence("pos", lm, hp.d_model)),
               Optional(query_pos, Sequence("tgt_pos", lt, hp.d_model)),
               Optional(query_pos, Sequence("query_pos", lt, hp.d_model)))

(* decoder(tgt, memory, graph_output, ..., pos=pos, query_pos=query_pos,    *)
(* tgt_pos=tgt_pos)                                                         *)
DecoderForward ==
    /\ pc = "decoder"
    /\ \E lm \in SeqLens, lt \in SeqLens, pos \in BOOLEAN, query_pos \in BOOLEAN :
          out' = [op |-> "decoder",
                  tgt |-> Sequence("tgt", lt, hp.d_model),
                  c |-> DecoderArgs(lm, lt, pos, query_pos),
                  res |-> TransformerDecoder_forward(decoder,
                            Sequence("tgt", lt, hp.d_model),
                            DecoderArgs(lm, lt, pos, query_pos))]
    /\ UNCHANGED <<args, hp, pc, model, encoder, decoder, heap, steps>>

(* encoder.layers[i](src, graph_output, src_mask=None,                      *)
(* src_key_padding_mask=mask, pos=pos)                                      *)
EncoderLayerForward ==
    /\ pc = "encoder"
    /\ \E i \in 1..Len(encoder.layers), ls \in SeqLens, pos \in BOOLEAN :
          out' = [op |-> "encoder_layer",
                  layer |-> encoder.layers[i],
                  src |-> Sequence("src", ls, hp.d_model),
                  pos |-> Optional(pos, Sequence("pos", ls, hp.d_model)),
                  res |-> TransformerEncoderLayer_forward(encoder.layers[i],
                            LayerNames[i], Sequence("src", ls, hp.d_model),
                            GraphOutputFor(args), None, "mask",
                            Optional(pos, Sequence("pos", ls, hp.d_model)))]
    /\ UNCHANGED <<args, hp, pc, model, encoder, decoder, heap, steps>>

(* decoder.layers[i](tgt, memory, graph_output, ...) with the arguments c *)
DecoderLayerCall(i, tgt, c) ==
    out' = [op |-> "decoder_layer", layer |-> decoder.layers[i], tgt |-> tgt,
            c |-> c,
            res |-> TransformerDecoderLayer_forward(decoder.layers[i],
                      LayerNames[i], tgt, c.memory, c.graph_output, c.tgt_mask,
                      c.memory_mask, c.tgt_key_padding_mask,
                      c.memory_key_padding_mask, c.pos, c.tgt_pos, c.query_pos)]

DecoderLayerForward ==
    /\ pc = "decoder"
    /\ \E i \in 1..Len(decoder.layers), lm \in SeqLens, lt \in SeqLens,
          pos \in BOOLEAN, query_pos \in BOOLEAN :
          DecoderLayerCall(i, Sequence("tgt", lt, hp.d_model),
                           DecoderArgs(lm, lt, pos, query_pos))
    /\ UNCHANGED <<args, hp, pc, model, encoder, decoder, heap, steps>>

(* --------------------------- specifications ---------------------------- *)
Next == Construct \/ Forward

Spec == Init /\ [][Next]_vars

NextTrain == Construct \/ OptimizerStep

SpecTrain == InitTrain /\ [][NextTrain]_vars

NextStacks == NewEncoder \/ NewDecoder \/ EncoderForward \/ DecoderForward

SpecStacks == InitStacks /\ [][NextStacks]_vars

NextLayers == NewEncoder \/ NewDecoder \/ EncoderLayerForward \/ DecoderLayerForward

SpecLayers == InitStacks /\ [][NextLayers]_vars

(* ------------------------------- claims -------------------------------- *)
(* C1: a decoder forward with return_intermediate enabled and a final norm  *)
(* that returns hands torch.stack exactly num_layers tensors, the i-th      *)
(* being the final norm applied to the output of layers 1..i fed with the   *)
(* un-normalized stream, the stacked tensor has num_layers slices, and the  *)
(* last entry is what the same decoder returns with return_intermediate     *)
(* disabled.                                                                *)
C1_ReturnIntermediate ==
    (/\ out.op = "decoder"
     /\ decoder.return_intermediate
     /\ decoder.norm # NoNorm
     /\ out.res.raised = None)
    => /\ Len(out.res.intermediate) = decoder.num_layers
       /\ out.res.t.shape[1] = decoder.num_layers
       /\ \A i \in 1..Len(out.res.intermediate) :
             out.res.intermediate[i] =
                 Tensor(out.tgt.shape,
                        out.tgt.val \o SubSeq(LayerNames, 1, i) \o <<"norm">>)
       /\ TransformerDecoder_forward(
              [decoder EXCEPT !.return_intermediate = FALSE],
              out.tgt, out.c).raised = None
       /\ out.res.intermediate[Len(out.res.intermediate)] =
              TransformerDecoder_forward(
                  [decoder EXCEPT !.return_intermediate = FALSE],
                  out.tgt, out.c).t

C1_Witness ==
    /\ out.op = "decoder"
    /\ decoder.return_intermediate
    /\ decoder.norm # NoNorm
    /\ out.res.raised = None
    /\ decoder.num_layers > 1
    /\ Len(out.res.intermediate) = decoder.num_layers

(* C2: every cross-attention call of a decoder layer, in both modes and for *)
(* both kg_attn settings, gets query = stream + query_pos and key = value = *)
(* memory + pos.                                                            *)
C2_CrossAttentionOperands ==
    out.op = "decoder_layer"
    => \A i \in DOMAIN out.res.calls :
          out.res.calls[i].attr = "multihead_attn"
          => /\ out.res.calls[i].key = with_pos_embed(out.c.memory, out.c.pos)
             /\ out.res.calls[i].value = with_pos_embed(out.c.memory, out.c.pos)
             /\ out.c.query_pos # NoTensor
                => SubSeq(out.res.calls[i].query.val,
                          Len(out.res.calls[i].query.val) - 1,
                          Len(out.res.calls[i].query.val))
                   = out.c.query_pos.val \o <<"+">>

(* C3: an encoder layer passes graph_output to its self-attention only when *)
(* the module is the knowledge-aware one, so with kg_attn off the standard  *)
(* module never rejects the call's keywords.                                *)
C3_GraphOutputOnlyWhenAccepted ==
    out.op = "encoder_layer"
    => /\ \A i \in DOMAIN out.res.calls :
             "graph_output" \in out.res.calls[i].kwargs
             => out.res.calls[i].cls = "MultiheadAttention"
       /\ out.res.raised # "TypeError"

(* C4 as stated: the tensor an encoder forward returns has the shape of src *)
(* and the tensor a decoder forward returns has the shape of tgt, for both  *)
(* settings of return_intermediate and of the final norm.                   *)
C4_ShapeAsStated ==
    /\ (out.op = "encoder" /\ out.res.raised = None)
       => out.res.t.shape = out.src.shape
    /\ (out.op = "decoder" /\ out.res.raised = None)
       => out.res.t.shape = out.tgt.shape

(* C4 amended: the tensor an encoder forward returns has the shape of src;  *)
(* the tensor a decoder forward returns has the shape of tgt when           *)
(* return_intermediate is disabled and the shape of tgt behind a new        *)
(* leading dimension of size num_layers when it is enabled, which needs a   *)
(* final norm: without one the call raises.                                 *)
C4_ShapeAmended ==
    /\ (out.op = "encoder" /\ out.res.raised = None)
       => out.res.t.shape = out.src.shape
    /\ (out.op = "decoder" /\ out.res.raised = None /\ ~decoder.return_intermediate)
       => out.res.t.shape = out.tgt.shape
    /\ (out.op = "decoder" /\ out.res.raised = None /\ decoder.return_intermediate)
       => /\ decoder.norm # NoNorm
          /\ out.res.t.shape = <<decoder.num_layers>> \o out.tgt.shape
    /\ (out.op = "decoder" /\ decoder.return_intermediate /\ decoder.norm = NoNorm)
       => out.res.raised # None

C4_Witness ==
    /\ out.op = "decoder"
    /\ out.res.raised = None
    /\ decoder.return_intermediate
    /\ decoder.num_layers = MaxLayers
    /\ out.tgt.shape[1] = MaxSeqLen
    /\ Len(out.res.t.shape) = Len(out.tgt.shape) + 1

(* C5: a forward with kg_attn off invokes no provider and has graph output  *)
(* and importance loss None; with kg_attn on it invokes exactly one         *)
(* provider exactly once (get_context_vectors iff use_gsnn), hands that     *)
(* provider's result to the encoder and to the decoder as graph output, and *)
(* its importance loss is the provider's under use_gsnn and None otherwise. *)
C5_Conditioning ==
    out.op = "forward"
    => LET f == out.res
           providers == {i \in DOMAIN f.log :
                            f.log[i].fn \in {"get_context_vectors",
                                             "get_node_representations"}}
       IN /\ args.kg_attn # TRUE
             => /\ f.log = <<>>
                /\ f.graph_output = NoTensor
                /\ f.importance_loss = NoTensor
          /\ args.kg_attn = TRUE
             => /\ Cardinality(providers) = 1
                /\ \A i \in providers :
                      /\ f.log[i].fn = IF args.use_gsnn
                                       THEN "get_context_vectors"
                                       ELSE "get_node_representations"
                      /\ f.graph_output =
                            IF args.use_gsnn
                            THEN get_context_vectors(args, Detections,
                                     TargetNodes, f.log[i].conditioning_input,
                                     out.mode).graph_output
                            ELSE get_node_representations(args,
                                     f.log[i].conditioning_input)
                /\ f.importance_loss =
                      IF args.use_gsnn
                      THEN Tensor(<<>>, <<"importance_loss", out.mode>>)
                      ELSE NoTensor
          /\ f.enc_called
          /\ f.enc_graph_output = f.graph_output
          /\ f.dec_called => f.dec_graph_output = f.graph_output
          /\ f.raised = None => f.dec_called

C5_Witness ==
    /\ out.op = "forward"
    /\ args.kg_attn = TRUE
    /\ args.use_gsnn
    /\ args.condition_propagation
    /\ out.res.raised = None
    /\ out.res.dec_called
    /\ out.res.importance_loss = Tensor(<<>>, <<"importance_loss", "train">>)

C7_ActivationNames ==
    /\ (_get_activation_fn(hp.activation).raised = None)
       <=> (hp.activation \in Recognized)
    /\ (pc # "new" /\ hp.activation \notin Recognized)
       => /\ pc = "raised"
          /\ out.raised = "RuntimeError"
          /\ model = NoModel
          /\ encoder.layers = <<>>
          /\ decoder.layers = <<>>
    /\ pc = "constructed"
       => /\ hp.activation \in Recognized
          /\ \A i \in DOMAIN encoder.layers :
                encoder.layers[i].activation = hp.activation
          /\ \A i \in DOMAIN decoder.layers :
                decoder.layers[i].activation = hp.activation

C7_Witness ==
    /\ pc = "raised"
    /\ hp.activation = "tanh"
    /\ out.raised = "RuntimeError"
    /\ encoder.layers = <<>>

(* C8: whenever a layer's feed-forward block ran its activation, the        *)
(* activation's output width is the input width of the second linear layer. *)
C8_FeedForwardWidths ==
    (out.op \in {"encoder_layer", "decoder_layer"} /\ out.res.ff.reached)
    => out.res.ff.act_out = out.res.ff.expect

(* C9: in a constructed Transformer no two distinct layers of the encoder   *)
(* and decoder stacks share a parameter object or a knowledge-weighting     *)
(* model object, each layer is a copy of its template, and an optimizer     *)
(* update of a parameter of one layer leaves every other layer's            *)
(* parameters as they were.                                                 *)
C9_NoSharedParameters ==
    pc = "constructed"
    => LET layers == encoder.layers \o decoder.layers
       IN /\ \A i \in DOMAIN layers :
                /\ layers[i].linear1 = <<hp.d_model, hp.dim_feedforward>>
                /\ layers[i].kind = IF i <= Len(encoder.layers) THEN "enc" ELSE "dec"
                /\ LayerIds(layers[i]) \subseteq DOMAIN heap
                /\ (args.kg_attn = TRUE) <=> (layers[i].self_attn.knowledge_model # 0)
          /\ \A i \in DOMAIN layers, j \in DOMAIN layers :
                i # j
                => /\ LayerIds(layers[i]) \cap LayerIds(layers[j]) = {}
                   /\ (out.op = "step" /\ out.updated \in LayerIds(layers[i]))
                      => \A q \in LayerIds(layers[j]) : heap[q] = out.before[q]

C9_Witness ==
    /\ pc = "constructed"
    /\ out.op = "step"
    /\ args.kg_attn = TRUE
    /\ Len(encoder.layers) > 1
    /\ out.updated = encoder.layers[1].self_attn.knowledge_model
    /\ heap[out.updated] > 0

(* C10: every collaborator attribute a forward reads was set by __init__    *)
(* for the same flags, so no forward raises AttributeError, and under       *)
(* use_gsnn the conditioning input given to get_context_vectors is None     *)
(* exactly when condition_propagation is off.                               *)
C10_CollaboratorsExist ==
    out.op = "forward"
    => /\ out.res.accessed \subseteq model.attrs
       /\ out.res.raised # "AttributeError"
       /\ (args.kg_attn = TRUE) => out.res.accessed # {}
       /\ \A i \in DOMAIN out.res.log :
             out.res.log[i].fn = "get_context_vectors"
             => ((out.res.log[i].conditioning_input = NoTensor)
                 <=> ~args.condition_propagation)

C10_Witness ==
    /\ out.op = "forward"
    /\ args.kg_attn = TRUE
    /\ ~args.use_gsnn
    /\ ~args.condition_propagation
    /\ "video_encoder" \in out.res.accessed
    /\ out.res.raised = None

====
